---- MODULE Spec2Model ----
(***************************************************************************)
(* A model of the Aseba D-Bus client binding                               *)
(* (examples/clients/python-dbus/aseba.py, class Aseba).                   *)
(*                                                                         *)
(* One session object is modelled: its four per-event tables, the name     *)
(* registry, the event loop, the signal subscription and the bus-side      *)
(* event filter.  The wall clock (time.time()) is a variable the           *)
(* environment advances; two readings may be equal.  Frequencies are kept  *)
(* as exact fractions <<numerator, denominator>>.                          *)
(***************************************************************************)
EXTENDS Integers, Sequences, FiniteSets, TLC

\* ------------------------------------------------------------------ bounds
MaxTime == 2
MaxFileLen == 2
MaxPending == 1
MaxFree == 2
MaxArrivals == 2
MaxWindowArrivals == 21
MaxReplyLen == 2
MaxFilters == 2

\* -------------------------------------------------------- program constants
NB_EVTS_FREQ == 10
DummyGetLen == 10

\* ------------------------------------------------------------ value domains
EventIds == {0, 1}
Names == {"a", "b"}
NoName == "<no name attribute>"
Callbacks == {"cb1", "cb2"}

\* an event identifier as the public calls take it: a name or a numeric id
NoId == 0 - 1
ByName(n) == [name |-> n, id |-> NoId]
ById(i) == [name |-> "", id |-> i]
NoArg == [name |-> "", id |-> NoId]
IsName(arg) == arg.name # ""
EventArgs == {ByName(n) : n \in Names} \cup {ById(i) : i \in EventIds}

VARIABLES
    dummy,              \* self.dummy
    callbacks,          \* self.callbacks          : id -> callback
    events_last_evt,    \* self._events_last_evt   : id -> timestamp
    events_periods,     \* self._events_periods    : id -> list of deltas
    events_freq,        \* self.events_freq        : id -> fraction
    eventnames,         \* self.eventnames         : list of names
    loop,               \* self.loop: "unset", "running" or "quit"
    connected,          \* self.dispatch_handler is still connected to the signal
    filter,             \* the bus-side event filter: "none", "active", "freed"
    bus,                \* self.bus: "none" (dummy) or "held"
    listening,          \* ids the filter was asked to listen to (ListenEvent)
    freeCalls,          \* number of self.events.Free() requests issued by close()
    pending,            \* asynchronous SendEvent requests awaiting their continuation
    now,                \* the wall clock read by time.time()
    main,               \* main program: "init", "loop" (inside run()), "body", "done"
    scoped,             \* the session was entered through __enter__
    pc,                 \* position inside a handler that is under way
    caller,             \* who called the latest close()
    cur,                \* id of the event whose callback is running
    arrivals,           \* id -> arrivals recorded since the id was subscribed
    stamps,             \* id -> clock readings of the current group of ten arrivals
    last                \* the latest operation, its argument and its outcome

vars == <<dummy, callbacks, events_last_evt, events_periods, events_freq,
          eventnames, loop, connected, filter, bus, listening, freeCalls,
          pending, now, main, scoped, pc, caller, cur, arrivals, stamps, last>>

tables == <<callbacks, events_last_evt, events_periods, events_freq>>
ghost == <<arrivals, stamps>>
session == <<loop, connected, filter, bus, freeCalls>>
control == <<main, scoped, pc, caller, cur>>

\* ------------------------------------------------------------ pure helpers
RECURSIVE Sum(_)
Sum(s) == IF s = <<>> THEN 0 ELSE Head(s) + Sum(Tail(s))

Abs(x) == IF x < 0 THEN -x ELSE x

RECURSIVE Gcd(_, _)
Gcd(a, b) == IF b = 0 THEN a ELSE Gcd(b, a % b)

\* the fraction n/d (d # 0) in lowest terms with a positive denominator
Frac(n, d) ==
    LET g == Gcd(Abs(n), Abs(d))
        s == IF d < 0 THEN -1 ELSE 1
    IN  <<(s * n) \div g, Abs(d) \div g>>

Zero == <<0, 1>>

\* sum(periods) / float(NB_EVTS_FREQ)
MeanPeriod(periods) == Frac(Sum(periods), NB_EVTS_FREQ)

\* 1. / p raises ZeroDivisionError when p is 0
Divides(p) == p[1] # 0

Reciprocal(p) == Frac(p[2], p[1])

\* 1. / (sum(periods) / float(NB_EVTS_FREQ))
Frequency(periods) == Reciprocal(MeanPeriod(periods))

\* dict[key] = value
Put(d, k, v) == [x \in (DOMAIN d) \cup {k} |-> IF x = k THEN v ELSE d[x]]

Empty == [x \in {} |-> 0]

\* ------------------------------------------------------------ name registry
\* event_name in self.eventnames
Known(names, name) == \E i \in 1 .. Len(names) : names[i] = name

\* self.eventnames.index(event_name): the first position holding the name
Index(names, name) ==
    (CHOOSE i \in 1 .. Len(names) :
        /\ names[i] = name
        /\ \A j \in 1 .. (i - 1) : names[j] # name) - 1

\* mutant: an unknown name gets id 0 instead of an exception
GetEventId_Default(names, name) ==
    IF Known(names, name)
    THEN [exc |-> "none", id |-> Index(names, name)]
    ELSE [exc |-> "none", id |-> 0]

\* _get_event_id: the id, or the AsebaException it raises
GetEventId(names, name) ==
    IF Known(names, name)
    THEN [exc |-> "none", id |-> Index(names, name)]
    ELSE [exc |-> "AsebaException", id |-> NoId]

\* mutant: a numeric id is looked up in the registry too
Resolve_NoBypass(names, arg) ==
    IF IsName(arg) THEN GetEventId(names, arg.name)
    ELSE IF arg.id < Len(names) THEN [exc |-> "none", id |-> arg.id]
    ELSE [exc |-> "AsebaException", id |-> NoId]

\* if isinstance(event_id, basestring): event_id = self._get_event_id(event_id)
Resolve(names, arg) ==
    IF IsName(arg) THEN GetEventId(names, arg.name)
    ELSE [exc |-> "none", id |-> arg.id]

\* an event-list file: malformed, or a sequence of nodes, each with a tag and
\* maybe a name attribute
Nodes == [tag : {"event"}, name : Names \cup {NoName}]
            \cup [tag : {"constant"}, name : {"a"}]

Files == {[wellformed |-> FALSE, nodes |-> <<>>]}
            \cup {[wellformed |-> TRUE, nodes |-> ns] :
                     ns \in UNION {[1 .. n -> Nodes] : n \in 0 .. MaxFileLen}}

\* for node in root if node.tag == "event"
RECURSIVE EventNodes(_)
EventNodes(ns) ==
    IF ns = <<>> THEN <<>>
    ELSE IF Head(ns).tag = "event" THEN <<Head(ns)>> \o EventNodes(Tail(ns))
         ELSE EventNodes(Tail(ns))

\* [node.attrib['name'] for node in root if node.tag == "event"]
LoadedNames(f) ==
    [i \in 1 .. Len(EventNodes(f.nodes)) |-> EventNodes(f.nodes)[i].name]

\* ET.parse raises on a malformed file; attrib['name'] raises KeyError
LoadOutcome(f) ==
    IF ~f.wellformed THEN "ParseError"
    ELSE IF \E i \in 1 .. Len(EventNodes(f.nodes)) :
                EventNodes(f.nodes)[i].name = NoName
         THEN "KeyError"
         ELSE "none"

\* ------------------------------------------------------------------- state
\* get_event_frequency, once the id is resolved
FrequencyOf(freq, id) == IF id \notin DOMAIN freq THEN Zero ELSE freq[id]

\* user code runs: the main program, or a callback run by the loop
UserCanCall == main # "done" /\ pc \in {"idle", "cb"}

\* an operation, its argument, the exception it raised ("none" when it
\* returned), the value it returned or the id it sent to the bus, and the
\* callback it invoked
Op(op, arg, exc, val) ==
    [op |-> op, arg |-> arg, exc |-> exc, val |-> val, cb |-> "", req |-> "",
     kind |-> ""]

\* the record of an operation that sent the request req to the service
Request(l, req) == [l EXCEPT !.req = req]

\* the record of an operation that was handed the callback cb
Given(l, cb) == [l EXCEPT !.cb = cb]

\* the record of an operation whose return value is a scalar or a list
Typed(l, kind) == [l EXCEPT !.kind = kind]

\* the dispatcher's call of a callback: self.callbacks[id](vals)
Fired(id, cb) ==
    Given(Op("_dispatch_events", ById(id), "none", <<>>), cb)

Init ==
    /\ dummy \in BOOLEAN
    /\ callbacks = Empty
    /\ events_last_evt = Empty
    /\ events_periods = Empty
    /\ events_freq = Empty
    /\ eventnames = <<>>
    /\ loop = "unset"
    /\ connected = ~dummy
    /\ filter = IF dummy THEN "none" ELSE "active"
    /\ bus = IF dummy THEN "none" ELSE "held"
    /\ listening = {}
    /\ freeCalls = 0
    /\ pending = 0
    /\ now = 0
    /\ main = "init"
    /\ scoped = FALSE
    /\ pc = "idle"
    /\ caller = "none"
    /\ cur = NoId
    /\ arrivals = Empty
    /\ stamps = Empty
    /\ last = Op("__init__", NoArg, "none", <<>>)

\* the wall clock advances
Tick ==
    /\ now < MaxTime
    /\ now' = now + 1
    /\ UNCHANGED <<dummy, tables, eventnames, session, listening, pending,
                   control, ghost, last>>

\* load_events_list
LoadEventsList(f) ==
    /\ UserCanCall
    /\ eventnames' = IF LoadOutcome(f) = "none" THEN LoadedNames(f) ELSE eventnames
    /\ last' = Op("load_events_list", NoArg, LoadOutcome(f), <<>>)
    /\ UNCHANGED <<dummy, tables, session, listening, pending, now, control, ghost>>

\* get_event_frequency
GetEventFrequency(arg) ==
    /\ UserCanCall
    /\ LET r == Resolve(eventnames, arg)
       IN  last' = Op("get_event_frequency", arg, r.exc,
                      IF r.exc # "none" THEN <<>>
                      ELSE FrequencyOf(events_freq, r.id))
    /\ UNCHANGED <<dummy, tables, eventnames, session, listening, pending, now,
                   control, ghost>>

\* self.events.ListenEvent(event_id): a freed filter answers no request, and
\* the transport may fail a request to an active one
ListenOutcomes == IF filter = "active" THEN {"none", "DBusException"}
                  ELSE {"DBusException"}

\* mutant: on_event keeps the estimate of an id that already has one
Subscribe_KeepEstimate(id, cb) ==
    /\ callbacks' = Put(callbacks, id, cb)
    /\ events_last_evt' = Put(events_last_evt, id, now)
    /\ events_periods' = Put(events_periods, id, <<>>)
    /\ events_freq' = IF id \in DOMAIN events_freq THEN events_freq
                      ELSE Put(events_freq, id, Zero)

\* mutant: on_event keeps the callback of an id that already has one
Subscribe_KeepCallback(id, cb) ==
    /\ callbacks' = IF id \in DOMAIN callbacks THEN callbacks
                    ELSE Put(callbacks, id, cb)
    /\ events_last_evt' = Put(events_last_evt, id, now)
    /\ events_periods' = Put(events_periods, id, <<>>)
    /\ events_freq' = Put(events_freq, id, Zero)

\* the four assignments of on_event
Subscribe(id, cb) ==
    /\ callbacks' = Put(callbacks, id, cb)
    /\ events_last_evt' = Put(events_last_evt, id, now)
    /\ events_periods' = Put(events_periods, id, <<>>)
    /\ events_freq' = Put(events_freq, id, Zero)

\* the estimate on_event overwrites, if the id has one
Replaced(id) == IF id \in DOMAIN events_freq THEN events_freq[id] ELSE <<>>

\* on_event
OnEvent(arg, cb) ==
    /\ UserCanCall
    /\ LET r == Resolve(eventnames, arg)
       IN  IF dummy
           THEN /\ last' = Op("on_event", arg, "none", <<>>)
                /\ UNCHANGED <<tables, listening, ghost>>
           ELSE IF r.exc # "none"
           THEN /\ last' = Op("on_event", arg, r.exc, <<>>)
                /\ UNCHANGED <<tables, listening, ghost>>
           ELSE /\ Subscribe(r.id, cb)
                /\ arrivals' = Put(arrivals, r.id, 0)
                /\ stamps' = Put(stamps, r.id, <<now>>)
                /\ \E exc \in ListenOutcomes :
                      /\ listening' = IF exc = "none" THEN listening \cup {r.id}
                                      ELSE listening
                      /\ last' = Given(Request(Op("on_event", arg, exc,
                                                   <<r.id>> \o Replaced(r.id)),
                                                "ListenEvent"), cb)
    /\ UNCHANGED <<dummy, eventnames, session, pending, now, control>>

\* send_event
SendEvent(arg) ==
    /\ UserCanCall
    /\ LET r == Resolve(eventnames, arg)
       IN  IF dummy
           THEN /\ last' = Op("send_event", arg, "none", <<>>)
                /\ UNCHANGED pending
           ELSE IF r.exc # "none"
           THEN /\ last' = Op("send_event", arg, r.exc, <<>>)
                /\ UNCHANGED pending
           ELSE /\ pending < MaxPending
                /\ pending' = pending + 1
                /\ last' = Request(Op("send_event", arg, "none", <<r.id>>),
                                    "SendEvent")
    /\ UNCHANGED <<dummy, tables, eventnames, session, listening, now, control,
                   ghost>>

\* ---------------------------------------------------------------- dispatch
\* mutant: an id without a callback gets a default entry, as a defaultdict would
DispatchEvents_DefaultEntry(id) ==
    /\ main = "loop" /\ pc = "idle" /\ connected
    /\ IF id \in DOMAIN callbacks
       THEN /\ pc' = "cb"
            /\ cur' = id
            /\ last' = Fired(id, callbacks[id])
            /\ UNCHANGED events_periods
       ELSE /\ last' = Op("_dispatch_events", ById(id), "none", <<>>)
            /\ events_periods' = Put(events_periods, id, <<>>)
            /\ UNCHANGED <<pc, cur>>
    /\ UNCHANGED <<dummy, callbacks, events_last_evt, events_freq, eventnames,
                   session, listening, pending, now, main, scoped, caller, ghost>>

\* _dispatch_events up to the call of the callback: an id without a callback
\* is dropped, otherwise the callback is entered
DispatchEvents(id) ==
    /\ main = "loop" /\ pc = "idle" /\ connected
    /\ IF id \in DOMAIN callbacks
       THEN /\ pc' = "cb"
            /\ cur' = id
            /\ last' = Fired(id, callbacks[id])
       ELSE /\ last' = Op("_dispatch_events", ById(id), "none", <<>>)
            /\ UNCHANGED <<pc, cur>>
    /\ UNCHANGED <<dummy, tables, eventnames, session, listening, pending, now,
                   main, scoped, caller, ghost>>

\* mutant: the arrival is recorded although the callback raised
CallbackRaises_Recorded ==
    /\ pc = "cb"
    /\ pc' = "idle"
    /\ cur' = NoId
    /\ events_last_evt' = Put(events_last_evt, cur, now)
    /\ events_periods' = Put(events_periods, cur,
                             Append(events_periods[cur], now - events_last_evt[cur]))
    /\ last' = Op("callback", ById(cur), "CallbackError", <<>>)
    /\ UNCHANGED <<dummy, callbacks, events_freq, eventnames, session, listening,
                   pending, now, main, scoped, caller, ghost>>

\* the callback raises: the exception leaves _dispatch_events at line 200
CallbackRaises ==
    /\ pc = "cb"
    /\ pc' = "idle"
    /\ cur' = NoId
    /\ last' = Op("callback", ById(cur), "CallbackError", <<>>)
    /\ UNCHANGED <<dummy, tables, eventnames, session, listening, pending, now,
                   main, scoped, caller, ghost>>

\* self._events_periods[id].append(now - self._events_last_evt[id])
Appended(id) == Append(events_periods[id], now - events_last_evt[id])

\* len(self._events_periods[id]) == Aseba.NB_EVTS_FREQ
WindowFull(periods) == Len(periods) = NB_EVTS_FREQ

\* the callback returns and _dispatch_events updates the frequency state
\* (lines 203-208); cap bounds the arrivals recorded for one id
CallbackReturns(cap) ==
    /\ pc = "cb"
    /\ arrivals[cur] < cap
    /\ pc' = "idle"
    /\ cur' = NoId
    /\ events_last_evt' = Put(events_last_evt, cur, now)
    /\ IF WindowFull(Appended(cur))
       THEN IF Divides(MeanPeriod(Appended(cur)))
            THEN /\ events_freq' = Put(events_freq, cur, Frequency(Appended(cur)))
                 /\ events_periods' = Put(events_periods, cur, <<>>)
                 /\ last' = Op("callback", ById(cur), "none", <<>>)
            ELSE /\ events_periods' = Put(events_periods, cur, Appended(cur))
                 /\ last' = Op("callback", ById(cur), "ZeroDivisionError", <<>>)
                 /\ UNCHANGED events_freq
       ELSE /\ events_periods' = Put(events_periods, cur, Appended(cur))
            /\ last' = Op("callback", ById(cur), "none", <<>>)
            /\ UNCHANGED events_freq
    /\ arrivals' = Put(arrivals, cur, arrivals[cur] + 1)
    /\ stamps' = Put(stamps, cur,
                     IF arrivals[cur] % NB_EVTS_FREQ = 0
                     THEN <<stamps[cur][Len(stamps[cur])], now>>
                     ELSE Append(stamps[cur], now))
    /\ UNCHANGED <<dummy, callbacks, eventnames, session, listening, pending,
                   now, main, scoped, caller>>

\* --------------------------------------------------------------- lifecycle
\* run, called directly (scoped = FALSE) or by __enter__ (scoped = TRUE):
\* creates the loop and blocks in it
Run(enter) ==
    /\ main = "init" /\ pc = "idle"
    /\ loop' = "running"
    /\ main' = "loop"
    /\ scoped' = enter
    /\ last' = Op(IF enter THEN "__enter__" ELSE "run", NoArg, "none", <<>>)
    /\ UNCHANGED <<dummy, tables, eventnames, connected, filter, bus, freeCalls,
                   listening, pending, now, pc, caller, cur, ghost>>

\* self.loop.run() returns once the loop was told to quit and the handler
\* that told it has returned
LoopReturns ==
    /\ main = "loop" /\ pc = "idle" /\ loop = "quit"
    /\ main' = "body"
    /\ last' = Op("loop.run", NoArg, "none", <<>>)
    /\ UNCHANGED <<dummy, tables, eventnames, session, listening, pending, now,
                   scoped, pc, caller, cur, ghost>>

\* where control goes when close() returns or raises
AfterClose(by, exc) ==
    /\ caller' = by
    /\ pc' = IF by = "dbus_error" /\ exc = "none" THEN "err_raise"
             ELSE IF cur # NoId THEN "cb"
             ELSE "idle"
    /\ main' = IF by = "__exit__" THEN "done" ELSE main

\* mutant: close() forgets self.loop.quit()
CloseQuit_NoQuit(by) ==
    /\ IF loop = "unset"
       THEN /\ last' = Op("close", NoArg, "AttributeError", <<>>)
            /\ AfterClose(by, "AttributeError")
       ELSE /\ last' = Op("loop.quit", NoArg, "none", <<>>)
            /\ IF dummy
               THEN AfterClose(by, "none")
               ELSE /\ pc' = "close_remove"
                    /\ caller' = by
                    /\ UNCHANGED main
    /\ UNCHANGED <<dummy, tables, eventnames, loop, connected, filter, bus,
                   freeCalls, listening, now, scoped, cur, ghost>>

\* close(), first statement: self.loop.quit().  Without a loop the attribute
\* is missing and close() ends there; a dummy session returns after it
CloseQuit(by) ==
    /\ IF loop = "unset"
       THEN /\ last' = Op("close", NoArg, "AttributeError", <<>>)
            /\ AfterClose(by, "AttributeError")
            /\ UNCHANGED loop
       ELSE /\ loop' = "quit"
            /\ last' = Op("loop.quit", NoArg, "none", <<>>)
            /\ IF dummy
               THEN AfterClose(by, "none")
               ELSE /\ pc' = "close_remove"
                    /\ caller' = by
                    /\ UNCHANGED main
    /\ UNCHANGED <<dummy, tables, eventnames, connected, filter, bus, freeCalls,
                   listening, now, scoped, cur, ghost>>

\* mutant: close() forgets self.dispatch_handler.remove()
CloseRemove_Skipped ==
    /\ pc = "close_remove"
    /\ pc' = "close_free"
    /\ last' = Op("dispatch_handler.remove", NoArg, "none", <<>>)
    /\ UNCHANGED <<dummy, tables, eventnames, loop, connected, filter, bus,
                   freeCalls, listening, pending, now, main, scoped, caller, cur,
                   ghost>>

\* close(), second statement: self.dispatch_handler.remove()
CloseRemove ==
    /\ pc = "close_remove"
    /\ connected' = FALSE
    /\ pc' = "close_free"
    /\ last' = Op("dispatch_handler.remove", NoArg, "none", <<>>)
    /\ UNCHANGED <<dummy, tables, eventnames, loop, filter, bus, freeCalls,
                   listening, pending, now, main, scoped, caller, cur, ghost>>

\* close(), third statement: self.events.Free().  The service frees an active
\* filter; a filter already freed is gone and the request fails
CloseFree ==
    /\ pc = "close_free"
    /\ freeCalls' = freeCalls + 1
    /\ LET exc == IF filter = "active" THEN "none" ELSE "DBusException"
       IN  /\ filter' = "freed"
           /\ last' = Request(Op("Free", NoArg, exc, <<>>), "Free")
           /\ AfterClose(caller, exc)
    /\ UNCHANGED <<dummy, tables, eventnames, loop, connected, bus, listening,
                   pending, now, scoped, cur, ghost>>

\* close() called by user code
Close ==
    /\ UserCanCall
    /\ dummy \/ freeCalls < MaxFree
    /\ CloseQuit("user")
    /\ UNCHANGED pending

\* __exit__
Exit ==
    /\ main = "body" /\ pc = "idle" /\ scoped
    /\ CloseQuit("__exit__")
    /\ UNCHANGED pending

\* dbus_reply: the success continuation of SendEvent
DbusReply ==
    /\ main = "loop" /\ pc = "idle" /\ pending > 0
    /\ pending' = pending - 1
    /\ last' = Op("dbus_reply", NoArg, "none", <<>>)
    /\ UNCHANGED <<dummy, tables, eventnames, session, listening, now, control,
                   ghost>>

\* mutant: dbus_error raises without calling close()
DbusError_NoClose ==
    /\ main = "loop" /\ pc = "idle" /\ pending > 0
    /\ freeCalls < MaxFree
    /\ pending' = pending - 1
    /\ pc' = "err_raise"
    /\ last' = Op("dbus_error", NoArg, "none", <<>>)
    /\ UNCHANGED <<dummy, tables, eventnames, session, listening, now, main,
                   scoped, caller, cur, ghost>>

\* dbus_error: the error continuation of SendEvent, up to its call of close()
DbusError ==
    /\ main = "loop" /\ pc = "idle" /\ pending > 0
    /\ freeCalls < MaxFree
    /\ pending' = pending - 1
    /\ CloseQuit("dbus_error")

\* dbus_error, last statement: raise Exception('dbus error: ...')
DbusErrorRaise ==
    /\ pc = "err_raise"
    /\ pc' = "idle"
    /\ last' = Op("dbus_error", NoArg, "Exception", <<>>)
    /\ UNCHANGED <<dummy, tables, eventnames, session, listening, pending, now,
                   main, scoped, caller, cur, ghost>>

\* ------------------------------------------------- calls of the network proxy
\* the values of a variable, and the numbers standing for the nodes' names
Values == {0, 1}

\* the arrays the service answers GetVariable and GetNodesList with
Replies == UNION {[1..n -> Values] : n \in 0..MaxReplyLen}

\* [0] * 10
Zeros(n) == [i \in 1..n |-> 0]

\* mutant: a failed call of the network proxy drops the signal subscription
NetworkCall_Fatal(op, req, stub, results) ==
    /\ UserCanCall
    /\ IF dummy
       THEN last' = stub /\ UNCHANGED connected
       ELSE \/ /\ last' = Request(Op(op, NoArg, "DBusException", <<>>), req)
               /\ connected' = FALSE
            \/ /\ \E res \in results : last' = Request(res, req)
               /\ UNCHANGED connected
    /\ UNCHANGED <<dummy, tables, eventnames, loop, filter, bus, freeCalls,
                   listening, pending, now, control, ghost>>

\* mutant: get asks the service even in a dummy session
Get_NoDummyCheck ==
    /\ UserCanCall
    /\ \/ last' = Request(Op("get", NoArg, "DBusException", <<>>), "GetVariable")
       \/ \E reply \in Replies :
             last' = Request(Typed(Op("get", NoArg, "none", reply), "list"),
                             "GetVariable")
    /\ UNCHANGED <<dummy, tables, eventnames, session, listening, pending, now,
                   control, ghost>>

\* a synchronous method of self.network: a dummy session returns the stub at
\* once; otherwise the request is sent, and it raises dbus's exception to the
\* caller or returns one of the results
NetworkCall(op, req, stub, results) ==
    /\ UserCanCall
    /\ IF dummy
       THEN last' = stub
       ELSE \/ last' = Request(Op(op, NoArg, "DBusException", <<>>), req)
            \/ \E res \in results : last' = Request(res, req)
    /\ UNCHANGED <<dummy, tables, eventnames, session, listening, pending, now,
                   control, ghost>>

\* what get makes of the array: int(dbus_array[0]) for one element, else the
\* list of the elements
GetResult(reply) ==
    Typed(Op("get", NoArg, "none", reply),
          IF Len(reply) = 1 THEN "scalar" ELSE "list")

\* get
Get ==
    NetworkCall("get", "GetVariable",
                Typed(Op("get", NoArg, "none", Zeros(DummyGetLen)), "list"),
                {GetResult(reply) : reply \in Replies})

\* set
Set ==
    NetworkCall("set", "SetVariable", Op("set", NoArg, "none", <<>>),
                {Op("set", NoArg, "none", <<>>)})

\* load_scripts
LoadScripts ==
    NetworkCall("load_scripts", "LoadScripts",
                Op("load_scripts", NoArg, "none", <<>>),
                {Op("load_scripts", NoArg, "none", <<>>)})

\* get_nodes_list
GetNodesList ==
    NetworkCall("get_nodes_list", "GetNodesList",
                Typed(Op("get_nodes_list", NoArg, "none", <<>>), "list"),
                {Typed(Op("get_nodes_list", NoArg, "none", reply), "list") :
                    reply \in Replies})

\* ---------------------------------------------------------------- clear_events
\* root.iter("node") over the introspection of /events_filters, as
\* 'name' in n.attrib of each element: the root element, which has no name,
\* then one child per filter
Listing(n) == <<FALSE>> \o [i \in 1..n |-> TRUE]

\* the Free calls of the loop of clear_events: one for each named element
RECURSIVE FreeRequests(_)
FreeRequests(nodes) ==
    IF nodes = <<>> THEN 0
    ELSE (IF Head(nodes) THEN 1 ELSE 0) + FreeRequests(Tail(nodes))

\* clear_events, with n filters under /events_filters.  A dummy session has no
\* self.bus.  The path is there while this session's filter is, and the
\* filter is one of those listed; without the path Introspect raises dbus's
\* exception and clear_events returns.  val is the Free calls issued, then the
\* filters listed
ClearEvents(n) ==
    /\ UserCanCall
    /\ IF bus = "none"
       THEN /\ last' = Op("clear_events", NoArg, "AttributeError", <<>>)
            /\ UNCHANGED filter
       ELSE \/ /\ filter # "active" /\ n = 0
               /\ last' = Request(Op("clear_events", NoArg, "none", <<0>>),
                                  "Introspect")
               /\ UNCHANGED filter
            \/ /\ filter = "active" => n >= 1
               /\ last' = Request(Op("clear_events", NoArg, "none",
                                     <<FreeRequests(Listing(n)), n>>),
                                  "Introspect")
               /\ filter' = IF filter = "active" THEN "freed" ELSE filter
    /\ UNCHANGED <<dummy, tables, eventnames, loop, connected, bus, freeCalls,
                   listening, pending, now, control, ghost>>


\* ------------------------------------------------------------ specifications
IdArgs == {ById(i) : i \in EventIds}

\* the session's lifetime: subscriptions and sends by numeric id, arrivals,
\* the loop, close() from every caller
Next ==
    \/ \E arg \in IdArgs, cb \in Callbacks : OnEvent(arg, cb)
    \/ \E arg \in IdArgs : SendEvent(arg)
    \/ \E id \in EventIds : DispatchEvents(id)
    \/ CallbackRaises
    \/ CallbackReturns(MaxArrivals)
    \/ \E enter \in BOOLEAN : Run(enter)
    \/ LoopReturns
    \/ Close
    \/ CloseRemove
    \/ CloseFree
    \/ Exit
    \/ DbusReply
    \/ DbusError
    \/ DbusErrorRaise

Spec == Init /\ [][Next]_vars

\* the name registry: loads, and every call that takes a name or an id
NextRegistry ==
    \/ \E f \in Files : LoadEventsList(f)
    \/ \E arg \in EventArgs : GetEventFrequency(arg)
    \/ \E arg \in EventArgs : OnEvent(arg, "cb1")
    \/ \E arg \in EventArgs : SendEvent(arg)
    \/ \E enter \in BOOLEAN : Run(enter)
    \/ DbusReply

SpecRegistry == Init /\ [][NextRegistry]_vars

\* the frequency estimator: the clock, one subscribed id (0) with up to
\* MaxWindowArrivals arrivals, and arrivals for another id
NextFrequency ==
    \/ Tick
    \/ \E cb \in Callbacks : OnEvent(ById(0), cb)
    \/ \E arg \in IdArgs : GetEventFrequency(arg)
    \/ \E id \in EventIds : DispatchEvents(id)
    \/ CallbackRaises
    \/ CallbackReturns(MaxWindowArrivals)
    \/ \E enter \in BOOLEAN : Run(enter)

SpecFrequency == Init /\ [][NextFrequency]_vars

\* one subscription, its arrivals, the loop and close(), together with the
\* calls of the network proxy and clear_events
NextCalls ==
    \/ OnEvent(ById(0), "cb1")
    \/ SendEvent(ById(0))
    \/ DispatchEvents(0)
    \/ CallbackRaises
    \/ CallbackReturns(MaxArrivals)
    \/ \E enter \in BOOLEAN : Run(enter)
    \/ LoopReturns
    \/ Close
    \/ CloseRemove
    \/ CloseFree
    \/ Exit
    \/ DbusReply
    \/ Get
    \/ Set
    \/ LoadScripts
    \/ GetNodesList
    \/ \E n \in 0..MaxFilters : ClearEvents(n)
SpecCalls == Init /\ [][NextCalls]_vars

\* ------------------------------------------------------------------ claims
\* C1: when close() tears down a live session, Free is issued only right after
\* the signal subscription was removed, never while it is still connected,
\* and the bus handle is still held when Free is issued.
C1_TeardownOrder ==
    [][freeCalls' # freeCalls =>
          /\ last.op = "dispatch_handler.remove"
          /\ ~connected /\ ~connected'
          /\ bus = "held" /\ bus' = "held"]_vars

\* a close() of a live session removed the subscription and freed the filter
C1_Witness ==
    /\ last.op = "Free" /\ last.exc = "none"
    /\ ~connected /\ filter = "freed" /\ freeCalls = 1

\* C4: the dispatch of an id that has no callback invokes no callback, raises
\* nothing and leaves the four tables, the registry and the session unchanged.
C4_UnsubscribedDispatchIsNoOp ==
    [][(last'.op = "_dispatch_events" /\ last'.arg.id \notin DOMAIN callbacks) =>
          /\ last'.cb = "" /\ last'.exc = "none"
          /\ pc' = "idle"
          /\ UNCHANGED <<tables, eventnames, session, listening, pending>>]_vars

\* an event of an id without a callback was dispatched while another id had one
C4_Witness ==
    /\ last.op = "_dispatch_events" /\ last.cb = ""
    /\ last.arg.id \notin DOMAIN callbacks
    /\ DOMAIN callbacks # {}

C9_FreeExactlyOnce ==
    main = "done" => freeCalls = (IF dummy THEN 0 ELSE 1)

Deltas(ts) == [i \in 1 .. (Len(ts) - 1) |-> ts[i + 1] - ts[i]]

\* estimate f equals n / (the sum of the deltas ds)
IsRate(f, n, ds) == f[1] * Sum(ds) = n * f[2]

\* C2: after exactly 10 arrivals of a freshly subscribed id the estimate is
\* 10 / (d1 + ... + d10); after 0 to 9 arrivals it is still 0.
C2_FirstWindow ==
    \A id \in DOMAIN arrivals :
        /\ arrivals[id] < 10 => events_freq[id] = Zero
        /\ arrivals[id] = 10 => IsRate(events_freq[id], 10, Deltas(stamps[id]))

\* C3: after every 10*k-th arrival of a subscribed id the sample window is
\* empty and the estimate is 10 / (the sum of the deltas of the last ten
\* arrivals).
C3_NonOverlappingWindows ==
    \A id \in DOMAIN arrivals :
        (arrivals[id] > 0 /\ arrivals[id] % 10 = 0) =>
            /\ events_periods[id] = <<>>
            /\ IsRate(events_freq[id], 10, Deltas(stamps[id]))

\* C5: right after on_event succeeds on a live session the id's estimate is 0
\* and its window empty, and get_event_frequency of that id returns 0; an id
\* that was never subscribed has estimate 0, and get_event_frequency
\* returns 0 for it.
C5_FreshSubscriptionIsZero ==
    /\ [](/\ (last.op = "on_event" /\ last.exc = "none" /\ ~dummy) =>
                /\ FrequencyOf(events_freq, last.val[1]) = Zero
                /\ events_periods[last.val[1]] = <<>>
          /\ \A id \in EventIds \ DOMAIN arrivals :
                FrequencyOf(events_freq, id) = Zero
          /\ (last.op = "get_event_frequency" /\ last.arg.id \notin DOMAIN arrivals)
                => last.val = Zero)
    /\ [][(/\ last.op = "on_event" /\ last.exc = "none" /\ ~dummy
           /\ last'.op = "get_event_frequency"
           /\ last'.arg.id = last.val[1]) => last'.val = Zero]_vars

\* on_event succeeded for an id whose estimate was not 0
C5_Witness ==
    /\ last.op = "on_event" /\ last.exc = "none" /\ ~dummy
    /\ Len(last.val) = 3 /\ last.val[2] # 0

\* C6: the name of every entry of the loaded list resolves to the entry's
\* 0-indexed position.
C6_ResolvePosition ==
    \A i \in 1 .. Len(eventnames) :
        GetEventId(eventnames, eventnames[i]) = [exc |-> "none", id |-> i - 1]

\* a public call was given a name that is not in the registry
AbsentName(l, names) ==
    /\ l.op \in {"on_event", "send_event", "get_event_frequency"}
    /\ IsName(l.arg)
    /\ ~Known(names, l.arg.name)

\* C7: every public call given a name absent from the registry fails with
\* the unknown-event error.
C7_UnknownNameFails ==
    AbsentName(last, eventnames) => last.exc = "AsebaException"

\* C7, amended: on a live session every public call given an absent name
\* fails with the unknown-event error, and so does get_event_frequency on a
\* dummy session; on_event and send_event of a dummy session return without
\* resolving the name.  In every case the tables, the registry and the
\* session are unchanged and no ListenEvent or SendEvent is issued.
C7_UnknownNameLeavesSession ==
    /\ [](AbsentName(last, eventnames) =>
            IF dummy /\ last.op # "get_event_frequency"
            THEN last.exc = "none" /\ last.val = <<>>
            ELSE last.exc = "AsebaException")
    /\ [][AbsentName(last', eventnames) =>
            UNCHANGED <<tables, eventnames, session, listening, pending,
                        arrivals>>]_vars

\* on_event of a live session failed on a name absent from a loaded registry
C7_Witness ==
    /\ AbsentName(last, eventnames) /\ last.op = "on_event"
    /\ last.exc = "AsebaException"
    /\ ~dummy /\ eventnames # <<>> /\ DOMAIN callbacks # {}

\* C11: a transport failure of a synchronous get, set or load_scripts call is
\* raised to the caller and leaves the session as it was: the loop, the signal
\* subscription, the filter, the four tables, the registry and the caller's
\* position are unchanged, so an arrival for a subscribed id is dispatched to
\* its callback after the failure exactly when it was before
FailedCall(l) ==
    l.op \in {"get", "set", "load_scripts"} /\ l.exc = "DBusException"

C11_FailedCallKeepsSession ==
    /\ [][FailedCall(last') =>
            /\ last'.val = <<>>
            /\ UNCHANGED <<tables, eventnames, session, listening, pending,
                           control>>]_vars
    /\ [](FailedCall(last) /\ main = "loop" /\ pc = "idle" /\ connected =>
            \A id \in DOMAIN callbacks : ENABLED DispatchEvents(id))

C11_Witness ==
    /\ FailedCall(last)
    /\ main = "loop" /\ pc = "idle" /\ connected /\ filter = "active"
    /\ loop = "running" /\ callbacks # Empty

C13_OneFreePerListedFilter ==
    last.op = "clear_events" =>
        /\ last.exc = "none"
        /\ last.val[1] = (IF Len(last.val) = 2 THEN last.val[2] ELSE 0)

\* C14: a live send_event given a registered name issues exactly one SendEvent
\* request, with the id _get_event_id returns for the name in that registry
\* (the first position holding the name); given a numeric id it issues exactly
\* one SendEvent with that id, whatever the registry holds
SendsOnce(id) ==
    /\ last'.exc = "none"
    /\ last'.req = "SendEvent"
    /\ last'.val = <<id>>
    /\ pending' = pending + 1

C14_SendsResolvedId ==
    [][(last'.op = "send_event" /\ ~dummy) =>
          IF IsName(last'.arg)
          THEN Known(eventnames, last'.arg.name) =>
                  /\ SendsOnce(GetEventId(eventnames, last'.arg.name).id)
                  /\ last'.val[1] \in 0 .. (Len(eventnames) - 1)
                  /\ eventnames[last'.val[1] + 1] = last'.arg.name
          ELSE SendsOnce(last'.arg.id)]_vars

C14_Witness ==
    /\ ~dummy /\ last.op = "send_event" /\ last.req = "SendEvent"
    /\ IsName(last.arg) /\ last.val = <<1>>
    /\ eventnames = <<"a", "b">>

\* C15: the callback table holds, for each id, the callback of the latest
\* on_event for that id (on_event stores its callback under its id and leaves
\* the other entries alone, and nothing else writes the table), and an arrival
\* of a subscribed id, taken when no callback is running, enters exactly that
\* callback, once
C15_LatestCallbackFires ==
    /\ [][(last'.op = "on_event" /\ last'.req = "ListenEvent") =>
            /\ last'.val[1] \in DOMAIN callbacks'
            /\ callbacks'[last'.val[1]] = last'.cb
            /\ \A id \in DOMAIN callbacks' \ {last'.val[1]} :
                  id \in DOMAIN callbacks /\ callbacks'[id] = callbacks[id]]_vars
    /\ [][callbacks' # callbacks =>
            last'.op = "on_event" /\ last'.req = "ListenEvent"]_vars
    /\ [][(last'.op = "_dispatch_events" /\ last'.arg.id \in DOMAIN callbacks) =>
            /\ pc = "idle" /\ pc' = "cb" /\ cur' = last'.arg.id
            /\ last'.cb = callbacks[last'.arg.id]
            /\ UNCHANGED callbacks]_vars
    /\ [][(pc = "cb" /\ pc' = "cb") => last'.op # "_dispatch_events"]_vars

C15_Witness ==
    /\ last.op = "_dispatch_events" /\ last.arg.id = 0 /\ last.cb = "cb2"
    /\ pc = "cb" /\ cur = 0
    /\ DOMAIN callbacks = {0, 1} /\ callbacks[1] = "cb1"
    /\ arrivals[0] > 0

\* C16: an arrival of a subscribed id enters the callback with the frequency
\* state untouched; the arrival is recorded only by the step that follows the
\* callback's return, for the id of that callback; when the callback raises,
\* the exception leaves the dispatcher and the timestamp, the window and the
\* estimate of every id, and the count of recorded arrivals, stay as they were
TimingState == <<events_last_evt, events_periods, events_freq>>

\* a step of the program (the clock advancing is the one step that is not):
\* last' is the operation it performed
Performed(op) == now' = now /\ last'.op = op

C16_CallbackBeforeRecord ==
    /\ [][(Performed("_dispatch_events") /\ last'.cb # "") =>
            pc' = "cb" /\ UNCHANGED <<TimingState, arrivals, stamps>>]_vars
    /\ [][(Performed("callback") /\ last'.exc = "CallbackError") =>
            /\ pc = "cb" /\ pc' = "idle" /\ cur' = NoId
            /\ UNCHANGED <<TimingState, callbacks, arrivals, stamps>>]_vars
    /\ [][TimingState' # TimingState =>
            \/ last'.op = "on_event"
            \/ /\ last'.op = "callback" /\ last'.exc # "CallbackError"
               /\ pc = "cb" /\ last'.arg.id = cur
               /\ \A id \in DOMAIN events_last_evt \ {cur} :
                     /\ events_last_evt'[id] = events_last_evt[id]
                     /\ events_periods'[id] = events_periods[id]
                     /\ events_freq'[id] = events_freq[id]]_vars

C16_Witness ==
    /\ last.op = "callback" /\ last.exc = "CallbackError" /\ last.arg.id = 0
    /\ pc = "idle" /\ 0 \in DOMAIN events_last_evt
    /\ events_last_evt[0] < now /\ arrivals[0] > 0

\* C17: the registry never holds two entries with the same name, and resolving
\* the names of two different entries never gives the same id
C17_RegistryOneToOne ==
    \A i, j \in 1 .. Len(eventnames) :
        /\ eventnames[i] = eventnames[j] => i = j
        /\ i # j => GetEventId(eventnames, eventnames[i]).id
                        # GetEventId(eventnames, eventnames[j]).id

\* C18: between operations the four tables have the same ids as keys, and
\* every sample window holds fewer than 10 samples
C18_TablesAligned ==
    pc = "idle" =>
        /\ DOMAIN events_last_evt = DOMAIN callbacks
        /\ DOMAIN events_periods = DOMAIN callbacks
        /\ DOMAIN events_freq = DOMAIN callbacks
        /\ \A id \in DOMAIN events_periods : Len(events_periods[id]) < 10

\* C19: on a live session every id of the subscription table has had its
\* ListenEvent accepted by the filter
C19_SubscribedIsListened ==
    ~dummy => DOMAIN callbacks \subseteq listening

\* C20: in a scoped run no request reaches the filter after its release: every
\* ListenEvent of on_event and every Free goes to the filter while it is
\* active, and no callback is entered once a close() has completed
C20_NoRequestAfterRelease ==
    scoped =>
        /\ last.req = "ListenEvent" => filter = "active"
        /\ last.req = "Free" => last.exc = "none"
        /\ (last.op = "_dispatch_events" /\ last.cb # "") => freeCalls = 0
====
